---- MODULE Spec2Model ----
(***************************************************************************)
(* Model of the weii measurement engine (src/weii/cli.py, src/weii/gui.py). *)
(*                                                                         *)
(* The GUI main thread runs on_measure_clicked and finish_measurement; each *)
(* measurement runs measure_thread on a worker thread of its own.  A        *)
(* worker's steps are cut at its accesses to the module globals (measuring, *)
(* current_weight, status_message) and at each event it reads, so the main  *)
(* thread and the other workers interleave where the interpreter lets them. *)
(* The handlers of the main thread are atomic: the main loop runs one at a  *)
(* time.  measure_weight, which nothing in the package calls, is modelled   *)
(* as a call of its own on one thread (SpecMeasureWeight).                  *)
(*                                                                         *)
(* Weights are fixed-point numbers in units of 1/200 kg, which keeps        *)
(* event.value / 100 and the mean of two samples exact.                     *)
(*                                                                         *)
(* sys.exit in a worker raises SystemExit, which `except Exception` does    *)
(* not catch: the worker runs its finally block and ends.                   *)
(*                                                                         *)
(* Left out: device_found and the widgets (written, never read by the       *)
(* engine), the BMI computation of gui.py, the set_sensitive calls of       *)
(* update_status.                                                          *)
(***************************************************************************)
EXTENDS Integers, Sequences, FiniteSets, TLC

VARIABLES
    variant,         \* which of the two programs runs: "cli" (cli.py) or "gui" (gui.py)
    env,             \* the environment: the raw values the board reports, whether
                     \* it sends whole frames only, the events without use it
                     \* sends between them, the thread slots for workers
    measuring,       \* global measuring (cli.py:35)
    current_weight,  \* global current_weight (cli.py:36)
    status_message,  \* global status_message (cli.py:37)
    idle_queue,      \* pending GLib.idle_add(finish_measurement) callbacks
    thread,          \* per worker thread: program counter, locals, history
    ui               \* the main thread's position in update_status and the texts
                     \* of status_label and weight_label

vars == <<variant, env, measuring, current_weight, status_message, idle_queue, thread, ui>>

----------------------------------------------------------------------------
(* Bounds *)

\* read_data's `samples` argument (200 at cli.py:225), scaled down.
Samples == 2

\* At most this many finish callbacks are queued before one is run.
MaxIdleQueue == 1

\* The longest window handed to the reducer when it is checked on its own.
MaxWindow == 3

(* Program constants *)

DEFAULT_MIN_WEIGHT_LIMIT == 20

STATUS_EVERY_CLI == 10

STATUS_EVERY_GUI == 20

----------------------------------------------------------------------------
(* Values *)

\* Worker thread slots.  A slot is free until a thread is started in it and
\* again once that thread has terminated.
Workers == {1, 2}

None == 0 - 1

\* n kg as a fixed-point weight.
Kg(n) == n * 200

\* event.value / 100 (cli.py:325), in fixed-point units.
Convert(value) == (value * 200) \div 100

AxisCodes == <<"ABS_HAT1X", "ABS_HAT0X", "ABS_HAT0Y", "ABS_HAT1Y">>

\* Raw values of a light and of a heavy load on one sensor: four of them sum
\* to 12, 14, 16 or 18 kg, below the 20 kg limit, or to exactly 20 kg.
LightAndHeavy == {300, 500}

\* A board that only ever reports the heavy load.
HeavyOnly == {500}

AxisEvents(raws) == {[code |-> AxisCodes[i], value |-> v] : i \in 1..4, v \in raws}

OtherEvents ==
    { [code |-> "BTN_A", value |-> 1],
      [code |-> "SYN_DROPPED", value |-> 0],
      [code |-> "SYN_REPORT", value |-> 3],
      [code |-> "SYN_REPORT", value |-> 0],
      [code |-> "SYN_REPORT", value |-> 1],
      [code |-> "MSC_SCAN", value |-> 0] }

Events(raws) == AxisEvents(raws) \cup OtherEvents

\* The events the decoder has no use for: SYN_DROPPED, SYN_REPORT with value
\* 3, and the events of a code or value it does not know.
Noise ==
    {e \in OtherEvents : e.code # "BTN_A" /\ ~(e.code = "SYN_REPORT" /\ e.value = 0)}

\* The one such event a board sends that loses events now and then.
Dropped == {[code |-> "SYN_DROPPED", value |-> 0]}

\* The events of a board that sends its frames whole: the four axes in the
\* order of their slots, then the report marker; `filled` slots are in.
FramedEvents(raws, filled) ==
    {e \in Events(raws) :
        \/ \E i \in 1..4 : e.code = AxisCodes[i] /\ i = filled + 1
        \/ e.code = "SYN_REPORT" /\ e.value = 0 /\ filled = 4
        \/ e.code \in {"BTN_A", "SYN_DROPPED", "MSC_SCAN"}
        \/ e.code = "SYN_REPORT" /\ e.value # 0}

\* adj_spin.get_value() (cli.py:185): the adjustments a user may have set.
Adjusts == {Kg(0 - 2)}

Msg(text) == <<text, 0>>

\* Texts of the disconnect entry, as sequences of characters: none, a device
\* address, and a text that is no device address.
NoAddress == <<>>

GoodAddress ==
    <<"0", "0", ":", "1", "f", ":", "3", "2", ":", "A", "B", ":", "c", "D", ":", "9", "e">>

BadAddress == <<"n", "o", "t", "-", "a", "-", "m", "a", "c">>

Addresses == {NoAddress, GoodAddress, BadAddress}

HexDigits ==
    {"0", "1", "2", "3", "4", "5", "6", "7", "8", "9",
     "a", "b", "c", "d", "e", "f", "A", "B", "C", "D", "E", "F"}

\* re.match(r"^([0-9a-f]{2}[:]){5}([0-9a-f]{2})$", address, re.IGNORECASE)
MacPattern(address) ==
    /\ Len(address) = 17
    /\ \A i \in 1..17 :
         IF i % 3 = 0 THEN address[i] = ":" ELSE address[i] \in HexDigits

----------------------------------------------------------------------------
(* status_message values: <<text, number>>, the number being the one the   *)
(* f-string formats into the text (0 when the text holds none).            *)

WAITING == Msg("Waiting for balance board...")

READY == Msg("Ready")

ERROR == Msg("Error")

FoundStatus(v) ==
    IF v = "cli" THEN Msg("Balance board found, please step on.")
    ELSE Msg("Please step on board")

SteppedOffStatus(v) ==
    IF v = "cli" THEN Msg("User stepped off.") ELSE Msg("User stepped off")

StartedStatus(v) ==
    IF v = "cli" THEN Msg("Measurement started, please wait...") ELSE Msg("Measuring...")

CountStatus(v, n) ==
    IF v = "cli" THEN <<"Measuring... n/samples samples", n>> ELSE Msg("Measuring...")

StatusEvery(v) == IF v = "cli" THEN STATUS_EVERY_CLI ELSE STATUS_EVERY_GUI

\* f"{final_weight:.1f}": to the nearest 0.1 kg.
Round1(x) == ((x + 10) \div 20) * 20

DoneStatus(v, final_weight) ==
    IF v = "cli" THEN <<"Done, weight: kg", Round1(final_weight)>> ELSE Msg("Done")

\* status_message += "\nDisconnecting..."
DisconnectingStatus(s) == <<s[1] \o "\nDisconnecting...", s[2]>>

InitialStatus(v) == IF v = "cli" THEN WAITING ELSE READY

----------------------------------------------------------------------------
(* get_raw_measurement: the decoder *)

\* data = [None] * 4
FreshData == [i \in 1..4 |-> None]

\* A new call of get_raw_measurement starts from its own fresh list, whatever
\* the previous call's list held.
NewCallData(old) == FreshData

\* The slot an axis code is stored in (1..4 for data[0]..data[3]), 0 for others.
SlotOf(code) ==
    CASE code = "ABS_HAT1X" -> 1
      [] code = "ABS_HAT0X" -> 2
      [] code = "ABS_HAT0Y" -> 3
      [] code = "ABS_HAT1Y" -> 4
      [] OTHER -> 0

\* None in data
HasNone(data) == \E i \in 1..4 : data[i] = None

\* A sum that leaves the last slot out.
SumDataShort(data) == data[1] + data[2] + data[3]

\* sum(data)
SumData(data) == data[1] + data[2] + data[3] + data[4]

\* An incomplete group whose values are kept for the next group.
DiscardDataKept(data) == data

\* data = [None] * 4 ; continue
DiscardData(data) == FreshData

\* A button event that falls through to the unexpected events.
ButtonResultIgnored(data) == [data |-> data, result |-> "Pending", value |-> 0]

\* sys.exit(...) on BTN_A
ButtonResult(data) == [data |-> FreshData, result |-> "Abort", value |-> 0]

\* A marker that returns to read_data whatever the slots hold, an incomplete
\* group as a measurement of 0.
ReportResultPartial(data) ==
    [data |-> data, result |-> "Completed",
     value |-> IF HasNone(data) THEN 0 ELSE SumData(data)]

\* SYN_REPORT with value 0
ReportResult(data) ==
    IF HasNone(data)
    THEN [data |-> DiscardData(data), result |-> "Discarded", value |-> 0]
    ELSE [data |-> data, result |-> "Completed", value |-> SumData(data)]

\* A store that keeps the value a slot already holds.
StoreAxisKeepFirst(data, slot, value) ==
    IF data[slot] = None THEN [data EXCEPT ![slot] = value] ELSE data

\* data[n] = event.value / 100, whether data[n] is set or not.
StoreAxis(data, slot, value) == [data EXCEPT ![slot] = value]

\* A branch that throws the slots away.
IgnoreEventClearing(data) == [data |-> FreshData, result |-> "Pending", value |-> 0]

\* pass, or debug(...): the loop goes on with data as it is.
IgnoreEvent(data) == [data |-> data, result |-> "Pending", value |-> 0]

\* One iteration of the decoder's loop on one event.
GetRawMeasurementStep(data, event) ==
    IF SlotOf(event.code) # 0
    THEN [data |-> StoreAxis(data, SlotOf(event.code), Convert(event.value)),
          result |-> "Pending", value |-> 0]
    ELSE IF event.code = "BTN_A"
    THEN ButtonResult(data)
    ELSE IF event.code = "SYN_DROPPED"
    THEN IgnoreEvent(data)
    ELSE IF event.code = "SYN_REPORT" /\ event.value = 3
    THEN IgnoreEvent(data)
    ELSE IF event.code = "SYN_REPORT" /\ event.value = 0
    THEN ReportResult(data)
    ELSE IgnoreEvent(data)   \* debug(...)

----------------------------------------------------------------------------
(* read_data: the threshold gate and the window *)

NoStatus == Msg("")

\* A comparison that also rejects a measurement equal to the threshold.
BelowOrEqual(measurement, threshold) == measurement <= threshold

\* A comparison that lets a measurement of more than half the threshold pass.
BelowHalf(measurement, threshold) == 2 * measurement < threshold

\* measurement < threshold
Below(measurement, threshold) == measurement < threshold

\* A test that lets one sample more than `samples` in.
EnoughAfterOneMore(data, samples) == Len(data) > samples

\* len(data) >= samples
Enough(data, samples) == Len(data) >= samples

\* The body of read_data's loop once get_raw_measurement has returned:
\* the new window, the status written (NoStatus when none is) and whether
\* the loop is left by break.
ReadDataStep(data, measurement, threshold, samples, v) ==
    IF Len(data) # 0 /\ Below(measurement, threshold)
    THEN [data |-> data, status |-> SteppedOffStatus(v), break |-> TRUE]
    ELSE IF Len(data) = 0 /\ Below(measurement, threshold)
    THEN [data |-> data, status |-> NoStatus, break |-> FALSE]
    ELSE LET appended == Append(data, measurement)
             first == IF Len(appended) = 1 THEN StartedStatus(v) ELSE NoStatus
         IN  IF Enough(appended, samples)
             THEN [data |-> appended, status |-> first, break |-> TRUE]
             ELSE IF Len(appended) % StatusEvery(v) = 0
             THEN [data |-> appended, status |-> CountStatus(v, Len(appended)),
                   break |-> FALSE]
             ELSE [data |-> appended, status |-> first, break |-> FALSE]

----------------------------------------------------------------------------
(* statistics.median *)

RECURSIVE Insert(_, _)
Insert(x, s) ==
    IF s = <<>> THEN <<x>>
    ELSE IF x <= Head(s) THEN <<x>> \o s
    ELSE <<Head(s)>> \o Insert(x, Tail(s))

RECURSIVE Sorted(_)
Sorted(s) == IF s = <<>> THEN <<>> ELSE Insert(Head(s), Sorted(Tail(s)))

\* The middle of the data as it arrived, unsorted.
MedianOfUnsorted(s) ==
    LET n == Len(s)
    IN  IF n % 2 = 1 THEN s[(n + 1) \div 2]
        ELSE (s[n \div 2] + s[n \div 2 + 1]) \div 2

\* Samples are even numbers of units, so the mean of two of them is exact.
Median(s) ==
    LET n == Len(s)
        t == Sorted(s)
    IN  IF n % 2 = 1 THEN t[(n + 1) \div 2]
        ELSE (t[n \div 2] + t[n \div 2 + 1]) \div 2

\* statistics.median(data): raises StatisticsError("no median for empty
\* data") on an empty list.
StatisticsMedian(data) ==
    IF data = <<>> THEN [raised |-> TRUE, value |-> 0]
    ELSE [raised |-> FALSE, value |-> Median(data)]

----------------------------------------------------------------------------
(* Worker threads *)

\* The read of device.read_one() that raises instead of returning an event.
IOError == [code |-> "OSError", value |-> 0]

NoEvent == [code |-> "", value |-> 0]

\* History of the last event that was no axis event: the event,
\* the decoder's result and sample, the raw axis values that had arrived
\* since the previous result, and the length of the window before it.
NoLast ==
    [ev |-> NoEvent, res |-> "", sample |-> 0, grp |-> FreshData, over |-> FALSE,
     had |-> 0]

\* measure_weight's arguments besides adjust, as a caller that has none.
NoArgs == [fake |-> FALSE, terse |-> FALSE, disconnect_address |-> NoAddress,
           command |-> "None"]

\* A thread slot that runs nothing.
IdleThread ==
    [ pc |-> "idle",          \* where the thread is in measure_thread
      caller |-> "measure_thread",  \* the function that calls read_data
      args |-> NoArgs,        \* measure_weight's other arguments
      board |-> "None",       \* the device handle: "None", "open", "closed"
      closes |-> 0,           \* how often device.close() ran
      slots |-> FreshData,    \* get_raw_measurement's data
      weight_data |-> <<>>,   \* read_data's data, returned as weight_data
      adjust |-> 0,           \* measure_thread's argument
      final_weight |-> 0,     \* measure_thread's local
      how |-> "",             \* history: how the session ended
      cancelAt |-> "",        \* history: the phase a cancel request found it in
      after |-> 0,            \* history: events read since that request (0, 1, 2 = more)
      ended |-> "",           \* history: how read_data's loop was left
      published |-> FALSE,    \* history: the thread wrote current_weight
      discarded |-> FALSE,    \* history: the session has had an incomplete group
      over |-> FALSE,         \* history: an axis of grp was sent again with another value
      hooks |-> 0,            \* history: the hook statements the thread went through
      disconnected |-> NoAddress,  \* history: the address handed to bluetoothctl
      grp |-> FreshData,      \* history: raw axis values since the last result
      last |-> NoLast ]

\* threading.Thread(target=self.measure_thread, args=(adjust, ...)).start()
StartedThread(adjust) == [IdleThread EXCEPT !.pc = "begin", !.adjust = adjust]

\* A thread that has called measure_weight(adjust, ..., args...).
CallMeasureWeight(adjust, args) ==
    [IdleThread EXCEPT !.pc = "mw_begin", !.caller = "measure_weight",
                       !.adjust = adjust, !.args = args]

\* Where read_data returns to.
ReturnTo(t) == IF t.caller = "measure_weight" THEN "median" ELSE "result_test"

\* Where an exception goes: measure_thread catches it, measure_weight lets it
\* through to its caller.
Unwind(t) == IF t.caller = "measure_weight" THEN "propagated" ELSE "except"

\* An exit that takes the thread down without its finally block.
ExitPastFinally(t) == "exited"

\* Where sys.exit goes: past measure_thread's handler to its finally block,
\* out of measure_weight and its caller.
Exit(t) == IF t.caller = "measure_weight" THEN "exited" ELSE "finally"

Alive(t) == t.pc # "idle"

\* The session phase of the design, read off the thread's position.
Phase(t) ==
    IF t.pc \in {"begin", "wait_test", "lookup"} THEN "AwaitingDevice"
    ELSE IF t.pc \in {"cancel_test", "loop_test", "read"} /\ t.board = "open"
              /\ t.weight_data = <<>> THEN "AwaitingThreshold"
    ELSE IF t.pc \in {"loop_test", "read"} /\ t.weight_data # <<>> THEN "Collecting"
    ELSE IF t.pc = "idle" THEN "None"
    ELSE IF t.pc = "finally" THEN t.how
    ELSE "Finishing"

TypeOK ==
    /\ variant \in {"cli", "gui"}
    /\ measuring \in BOOLEAN
    /\ idle_queue \in 0..MaxIdleQueue
    /\ ui.pc \in {"idle", "weight"}
    /\ \A w \in Workers : Len(thread[w].weight_data) <= Samples

----------------------------------------------------------------------------
(* Initial state: the module globals as the module sets them, no thread. *)

\* Gtk.Label(label=status_message), Gtk.Label(label="0.0"); the main thread
\* runs no handler.
InitialUi(v) == [pc |-> "idle", status_label |-> InitialStatus(v), weight_label |-> 0]

InitGlobals ==
    /\ measuring = FALSE
    /\ current_weight = 0
    /\ status_message = InitialStatus(variant)
    /\ ui = InitialUi(variant)
    /\ idle_queue = 0
    /\ thread = [w \in Workers |-> IdleThread]

\* cli.py; two worker threads may be alive at once; whole frames of a heavy
\* load only, SYN_DROPPED between the events.
Init ==
    /\ variant = "cli"
    /\ env = [raws |-> HeavyOnly, framed |-> TRUE, noise |-> Dropped, workers |-> Workers]
    /\ InitGlobals

\* cli.py; one worker thread at a time; light and heavy loads, the events in
\* any order, SYN_DROPPED among them.
InitSession ==
    /\ variant = "cli"
    /\ env = [raws |-> LightAndHeavy, framed |-> FALSE, noise |-> Dropped, workers |-> {1}]
    /\ InitGlobals

\* cli.py; one worker thread at a time; light and heavy loads, the events in
\* any order, every kind of event the decoder ignores among them.
InitDecoder ==
    /\ variant = "cli"
    /\ env = [raws |-> LightAndHeavy, framed |-> FALSE, noise |-> Noise, workers |-> {1}]
    /\ InitGlobals

\* gui.py; two worker threads may be alive at once; whole frames of a heavy
\* load only.
InitGui ==
    /\ variant = "gui"
    /\ env = [raws |-> HeavyOnly, framed |-> TRUE, noise |-> Dropped, workers |-> Workers]
    /\ InitGlobals

\* cli.py; one worker thread at a time; whole frames of a heavy load only.
InitObserver ==
    /\ variant = "cli"
    /\ env = [raws |-> HeavyOnly, framed |-> TRUE, noise |-> Dropped, workers |-> {1}]
    /\ InitGlobals

\* The samples of the windows the reducer is checked on: 20, 22 and 25 kg.
WindowSamples == {Kg(20), Kg(22), Kg(25)}

\* The windows read_data may return: up to MaxWindow samples, none below the
\* minimum weight.
Windows == UNION {[1..n -> WindowSamples] : n \in 0..MaxWindow}

\* A caller of measure_weight whose read_data has returned weight_data.
AtMedian(weight_data, adjust) ==
    [IdleThread EXCEPT !.pc = "median", !.caller = "measure_weight",
                       !.board = "closed", !.closes = 1,
                       !.weight_data = weight_data, !.adjust = adjust]

\* A worker of measure_thread whose read_data has returned weight_data.
AtResultTest(weight_data, adjust) ==
    [IdleThread EXCEPT !.pc = "result_test", !.board = "closed", !.closes = 1,
                       !.weight_data = weight_data, !.adjust = adjust]

\* The reducer on its own: read_data has just returned some window to
\* measure_weight or to measure_thread, with the flag set or cleared.
InitReduce ==
    /\ variant = "cli"
    /\ env = [raws |-> HeavyOnly, framed |-> TRUE, noise |-> Dropped, workers |-> {1}]
    /\ measuring \in BOOLEAN
    /\ current_weight = 0
    /\ idle_queue = 0
    /\ ui = InitialUi(variant)
    /\ \E weight_data \in Windows, adjust \in {Kg(0 - 2), Kg(0)} :
         /\ status_message = IF weight_data = <<>> THEN FoundStatus(variant)
                              ELSE StartedStatus(variant)
         /\ \/ thread = [w \in Workers |-> IF w = 1 THEN AtMedian(weight_data, adjust)
                                                     ELSE IdleThread]
            \/ thread = [w \in Workers |-> IF w = 1 THEN AtResultTest(weight_data, adjust)
                                                     ELSE IdleThread]

\* The arguments measure_weight may be called with.
ArgSets ==
    [fake : BOOLEAN, terse : BOOLEAN, disconnect_address : Addresses,
     command : {"None", "cmd {weight}"}]

\* cli.py; measure_weight has just been called, with the flag as the module
\* or the window left it; light and heavy loads, the events in any order.
InitMeasureWeight ==
    /\ variant = "cli"
    /\ env = [raws |-> LightAndHeavy, framed |-> FALSE, noise |-> Noise, workers |-> {1}]
    /\ measuring \in BOOLEAN
    /\ current_weight = 0
    /\ status_message = InitialStatus(variant)
    /\ idle_queue = 0
    /\ ui = InitialUi(variant)
    /\ \E adjust \in Adjusts, args \in ArgSets :
         thread = [w \in Workers |-> IF w = 1 THEN CallMeasureWeight(adjust, args)
                                     ELSE IdleThread]

----------------------------------------------------------------------------
(* The GUI main thread *)

\* The main loop runs one handler at a time.
MainLoopFree == ui.pc = "idle"

FreeSlots == {w \in env.workers : ~Alive(thread[w])}

\* A cancel request finds each live session in some phase (history).
NoteCancel(t) ==
    IF Alive(t) /\ t.cancelAt = "" THEN [t EXCEPT !.cancelAt = Phase(t)] ELSE t

\* on_measure_clicked, `if not measuring` branch.
ClickStart ==
    /\ MainLoopFree
    /\ ~measuring
    /\ FreeSlots # {}
    /\ \E adjust \in Adjusts :
         LET w == CHOOSE x \in FreeSlots : \A y \in FreeSlots : x <= y
         IN  thread' = [thread EXCEPT ![w] = StartedThread(adjust)]
    /\ measuring' = TRUE
    /\ status_message' = IF variant = "gui" THEN WAITING ELSE status_message
    /\ UNCHANGED <<ui, variant, env, current_weight, idle_queue>>

\* on_measure_clicked, `else` branch.
ClickCancel ==
    /\ MainLoopFree
    /\ measuring
    /\ measuring' = FALSE
    /\ status_message' = IF variant = "gui" THEN READY ELSE status_message
    /\ thread' = [w \in Workers |-> NoteCancel(thread[w])]
    /\ UNCHANGED <<ui, variant, env, current_weight, idle_queue>>

OnMeasureClicked == ClickStart \/ ClickCancel

\* finish_measurement, run by the main loop for a queued idle callback.
FinishMeasurement ==
    /\ MainLoopFree
    /\ idle_queue > 0
    /\ idle_queue' = idle_queue - 1
    /\ measuring' = FALSE
    /\ UNCHANGED <<ui, variant, env, current_weight, status_message, thread>>

\* f"{current_weight:.1f}"
WeightText(weight) == Round1(weight)

\* update_status, run by the main loop every 500 ms:
\* self.status_label.set_text(status_message)
UpdateStatusLabel ==
    /\ ui.pc = "idle"
    /\ ui' = [ui EXCEPT !.pc = "weight", !.status_label = status_message]
    /\ UNCHANGED <<variant, env, measuring, current_weight, status_message, idle_queue,
                   thread>>

\* self.weight_label.set_markup(f"...{current_weight:.1f}...") ; return True
UpdateWeightLabel ==
    /\ ui.pc = "weight"
    /\ ui' = [ui EXCEPT !.pc = "idle", !.weight_label = WeightText(current_weight)]
    /\ UNCHANGED <<variant, env, measuring, current_weight, status_message, idle_queue,
                   thread>>

UpdateStatus == UpdateStatusLabel \/ UpdateWeightLabel

----------------------------------------------------------------------------
(* measure_thread, read_data and get_raw_measurement on worker thread w.    *)
(* ReadOne and ReadRaises set the history of the last event, Except keeps   *)
(* it, every other step clears it.  ReadOne counts the events read since a  *)
(* cancel request, every other step clears the count.                       *)

Cur(w) == [thread[w] EXCEPT !.last = NoLast, !.after = 0]

Reading(w) == [thread[w] EXCEPT !.last = NoLast]

Put(w, t) == thread' = [thread EXCEPT ![w] = t]

\* status_message = "Waiting for balance board..." (cli only); board = None
Begin(w) ==
    /\ thread[w].pc = "begin"
    /\ status_message' = IF variant = "cli" THEN WAITING ELSE status_message
    /\ Put(w, [Cur(w) EXCEPT !.pc = "wait_test"])
    /\ UNCHANGED <<ui, variant, env, measuring, current_weight, idle_queue>>

\* while measuring and not board
WaitTest(w) ==
    /\ thread[w].pc = "wait_test"
    /\ Put(w, [Cur(w) EXCEPT !.pc = IF measuring THEN "lookup" ELSE "cancel_test"])
    /\ UNCHANGED <<ui, variant, env, measuring, current_weight, status_message, idle_queue>>

\* board = get_board_device(): the board is there and is opened ...
LookupFound(w) ==
    /\ thread[w].pc = "lookup"
    /\ status_message' = FoundStatus(variant)
    /\ Put(w, [Cur(w) EXCEPT !.pc = "cancel_test", !.board = "open"])
    /\ UNCHANGED <<ui, variant, env, measuring, current_weight, idle_queue>>

\* ... or it is not: time.sleep(0.5) and test again.
LookupNone(w) ==
    /\ thread[w].pc = "lookup"
    /\ Put(w, [Cur(w) EXCEPT !.pc = "wait_test"])
    /\ UNCHANGED <<ui, variant, env, measuring, current_weight, status_message, idle_queue>>

\* if not measuring: return   (gui writes "Ready" first)
CancelTest(w) ==
    /\ thread[w].pc = "cancel_test"
    /\ Put(w, IF measuring THEN [Cur(w) EXCEPT !.pc = "loop_test"]
              ELSE IF variant = "gui" THEN [Cur(w) EXCEPT !.pc = "ready_write"]
              ELSE [Cur(w) EXCEPT !.pc = "finally", !.how = "Cancelled"])
    /\ UNCHANGED <<ui, variant, env, measuring, current_weight, status_message, idle_queue>>

\* status_message = "Ready" ; return   (gui.py only)
ReadyWrite(w) ==
    /\ thread[w].pc = "ready_write"
    /\ status_message' = READY
    /\ Put(w, [Cur(w) EXCEPT !.pc = "finally", !.how = "Cancelled"])
    /\ UNCHANGED <<ui, variant, env, measuring, current_weight, idle_queue>>

\* read_data: while measuring: measurement = get_raw_measurement(device)
LoopTest(w) ==
    /\ thread[w].pc = "loop_test"
    /\ Put(w, IF measuring
              THEN [Cur(w) EXCEPT !.pc = "read", !.slots = NewCallData(@),
                                  !.grp = FreshData]
              ELSE [Cur(w) EXCEPT !.pc = "close", !.ended = "stopped"])
    /\ UNCHANGED <<ui, variant, env, measuring, current_weight, status_message, idle_queue>>

\* minlimit = self.min_spin.get_value() (its default), passed as threshold.
Threshold == Kg(DEFAULT_MIN_WEIGHT_LIMIT)

\* History: the raw axis values that arrived since the last result.
GroupAfter(t, e) ==
    IF SlotOf(e.code) # 0 THEN [t.grp EXCEPT ![SlotOf(e.code)] = e.value]
    ELSE t.grp

\* History: event e sets a slot of the group again, with another value.
OverAfter(t, e) ==
    \/ t.over
    \/ /\ SlotOf(e.code) # 0
       /\ t.grp[SlotOf(e.code)] \notin {None, e.value}

\* History: the way the step g of read_data's loop body left the loop, "" when
\* it did not: by the break under "The user stepped off the board", or by the
\* break under "We have enough samples now".
LoopLeft(data, g) ==
    IF ~g.break THEN ""
    ELSE IF Len(g.data) = Len(data) THEN "stepoff"
    ELSE "full"

\* History: one more event was read since a cancel request.
CountAfterCancel(t) ==
    IF t.cancelAt = "" THEN t
    ELSE [t EXCEPT !.after = IF @ < 2 THEN @ + 1 ELSE 2]

\* The thread after the decoder read event e and, when a measurement was
\* completed, after the rest of read_data's loop body.
AfterEvent(t, e, v) ==
    LET r == GetRawMeasurementStep(t.slots, e)
        seen == [ev |-> e, res |-> r.result, sample |-> r.value, grp |-> t.grp,
                 over |-> t.over, had |-> Len(t.weight_data)]
    IN  IF r.result = "Pending"
        THEN [t EXCEPT !.slots = r.data, !.grp = GroupAfter(t, e),
                       !.over = OverAfter(t, e),
                       !.last = IF SlotOf(e.code) # 0 THEN NoLast ELSE seen]
        ELSE IF r.result = "Discarded"
        THEN [t EXCEPT !.slots = r.data, !.grp = FreshData, !.over = FALSE,
                       !.discarded = TRUE, !.last = seen]
        ELSE IF r.result = "Abort"
        THEN [t EXCEPT !.slots = r.data, !.grp = FreshData, !.over = FALSE,
                       !.last = seen, !.pc = Exit(t), !.how = "Aborted"]
        ELSE LET g == ReadDataStep(t.weight_data, r.value, Threshold, Samples, v)
             IN  [t EXCEPT !.slots = FreshData, !.grp = FreshData, !.over = FALSE,
                           !.last = seen, !.weight_data = g.data,
                           !.ended = LoopLeft(t.weight_data, g),
                           !.pc = IF g.break THEN "close" ELSE "loop_test"]

\* The status read_data writes after event e (NoStatus: none).
StatusAfterEvent(t, e, v) ==
    LET r == GetRawMeasurementStep(t.slots, e)
    IN  IF r.result = "Completed"
        THEN ReadDataStep(t.weight_data, r.value, Threshold, Samples, v).status
        ELSE NoStatus

\* The events the board may send next to the thread's handle.
NextEvents(t) ==
    LET sent == IF env.framed
                THEN FramedEvents(env.raws, Cardinality({i \in 1..4 : t.grp[i] # None}))
                ELSE Events(env.raws)
    IN  {e \in sent : e \in Noise => e \in env.noise}

\* event = device.read_one() returned an event.
ReadOne(w) ==
    /\ thread[w].pc = "read"
    /\ thread[w].board = "open"
    /\ \E e \in NextEvents(thread[w]) :
         /\ Put(w, CountAfterCancel(AfterEvent(Reading(w), e, variant)))
         /\ status_message' =
              IF StatusAfterEvent(thread[w], e, variant) = NoStatus THEN status_message
              ELSE StatusAfterEvent(thread[w], e, variant)
    /\ UNCHANGED <<ui, variant, env, measuring, current_weight, idle_queue>>

\* event = device.read_one() returned None, the board having sent nothing:
\* `if event is None: continue`, and read_one is called again.
ReadNone(w) ==
    /\ thread[w].pc = "read"
    /\ thread[w].board = "open"
    /\ UNCHANGED vars

\* device.read_one() raised (the device went away), or device is None.
ReadRaises(w) ==
    /\ thread[w].pc = "read"
    /\ Put(w, [Cur(w) EXCEPT !.pc = Unwind(thread[w]), !.how = "Failed",
                             !.slots = FreshData, !.grp = FreshData, !.over = FALSE,
                             !.last = [NoLast EXCEPT !.ev = IOError, !.res = "Raise"]])
    /\ UNCHANGED <<ui, variant, env, measuring, current_weight, status_message, idle_queue>>

\* A read_data that returns its data and leaves the device open.
CloseSkipped(w) ==
    /\ thread[w].pc = "close"
    /\ Put(w, [Cur(w) EXCEPT !.pc = ReturnTo(thread[w])])
    /\ UNCHANGED <<ui, variant, env, measuring, current_weight, status_message, idle_queue>>

\* device.close() ; return data     (None.close() raises)
Close(w) ==
    /\ thread[w].pc = "close"
    /\ Put(w, IF thread[w].board = "open"
              THEN [Cur(w) EXCEPT !.pc = ReturnTo(thread[w]), !.board = "closed",
                                  !.closes = @ + 1]
              ELSE [Cur(w) EXCEPT !.pc = Unwind(thread[w]), !.how = "Failed"])
    /\ UNCHANGED <<ui, variant, env, measuring, current_weight, status_message, idle_queue>>

\* if weight_data and measuring:
ResultTest(w) ==
    /\ thread[w].pc = "result_test"
    /\ Put(w, IF thread[w].weight_data # <<>> /\ measuring
              THEN [Cur(w) EXCEPT !.pc = "publish"]
              ELSE [Cur(w) EXCEPT !.pc = "finally", !.how = "Cancelled"])
    /\ UNCHANGED <<ui, variant, env, measuring, current_weight, status_message, idle_queue>>

\* final_weight = statistics.median(weight_data) + adjust
FinalWeight(weight_data, adjust) == StatisticsMedian(weight_data).value + adjust

\* current_weight = final_weight
Publish(w) ==
    /\ thread[w].pc = "publish"
    /\ LET fw == FinalWeight(thread[w].weight_data, thread[w].adjust)
       IN  /\ current_weight' = fw
           /\ Put(w, [Cur(w) EXCEPT !.pc = "done_status", !.final_weight = fw,
                                    !.published = TRUE, !.how = "Completed"])
    /\ UNCHANGED <<ui, variant, env, measuring, status_message, idle_queue>>

\* status_message = f"Done, weight: {final_weight:.1f} kg"   (gui: "Done")
WriteDone(w) ==
    /\ thread[w].pc = "done_status"
    /\ status_message' = DoneStatus(variant, thread[w].final_weight)
    /\ Put(w, [Cur(w) EXCEPT !.pc = IF variant = "cli" THEN "disconnect" ELSE "finally"])
    /\ UNCHANGED <<ui, variant, env, measuring, current_weight, idle_queue>>

\* if disconnect_address: status_message += ... ; subprocess.run([...])
\* The argument is first read here, so its value is chosen here.
Disconnect(w) ==
    /\ thread[w].pc = "disconnect"
    /\ \E disconnect_address \in Addresses :
         IF disconnect_address = NoAddress
         THEN /\ Put(w, [Cur(w) EXCEPT !.pc = "command", !.hooks = @ + 1])
              /\ UNCHANGED status_message
         ELSE /\ status_message' = DisconnectingStatus(status_message)
              /\ \E raised \in BOOLEAN :
                   Put(w, IF raised
                          THEN [Cur(w) EXCEPT !.pc = "except", !.how = "Failed",
                                              !.hooks = @ + 1,
                                              !.disconnected = disconnect_address]
                          ELSE [Cur(w) EXCEPT !.pc = "command", !.hooks = @ + 1,
                                              !.disconnected = disconnect_address])
    /\ UNCHANGED <<ui, variant, env, measuring, current_weight, idle_queue>>

\* if command: subprocess.run(command.replace("{weight}", ...), shell=True)
Command(w) ==
    /\ thread[w].pc = "command"
    /\ \E command \in {"None", "cmd {weight}"}, raised \in BOOLEAN :
         Put(w, IF command # "None" /\ raised
                THEN [Cur(w) EXCEPT !.pc = "except", !.how = "Failed", !.hooks = @ + 1]
                ELSE [Cur(w) EXCEPT !.pc = "finally", !.hooks = @ + 1])
    /\ UNCHANGED <<ui, variant, env, measuring, current_weight, status_message, idle_queue>>

\* except Exception as e: status_message = f"Error: {str(e)}"
Except(w) ==
    /\ thread[w].pc = "except"
    /\ status_message' = ERROR
    /\ Put(w, [thread[w] EXCEPT !.pc = "finally", !.after = 0])
    /\ UNCHANGED <<ui, variant, env, measuring, current_weight, idle_queue>>

\* finally: GLib.idle_add(self.finish_measurement) ; the thread ends, and its
\* locals and its history with it: the slot runs nothing again.
Finally(w) ==
    /\ thread[w].pc = "finally"
    /\ idle_queue < MaxIdleQueue
    /\ idle_queue' = idle_queue + 1
    /\ Put(w, IdleThread)
    /\ UNCHANGED <<ui, variant, env, measuring, current_weight, status_message>>

\* measure_weight: final_weight = statistics.median(weight_data) ;
\* final_weight += adjust.  An exception of the median leaves the function.
MeasureWeightMedian(w) ==
    /\ thread[w].pc = "median"
    /\ LET m == StatisticsMedian(thread[w].weight_data)
       IN  Put(w, IF m.raised
                  THEN [Cur(w) EXCEPT !.pc = "raised", !.how = "StatisticsError"]
                  ELSE [Cur(w) EXCEPT !.pc = "returned",
                                      !.final_weight = m.value + thread[w].adjust])
    /\ UNCHANGED <<ui, variant, env, measuring, current_weight, status_message, idle_queue>>

\* measure_weight: the test of disconnect_address against the MAC pattern,
\* sys.exit on a mismatch; status_message = "Waiting for balance board..."
MwValidate(w) ==
    /\ thread[w].pc = "mw_begin"
    /\ LET address == thread[w].args.disconnect_address
       IN  IF address # NoAddress /\ ~MacPattern(address)
           THEN /\ Put(w, [Cur(w) EXCEPT !.pc = "exited", !.how = "Rejected"])
                /\ UNCHANGED status_message
           ELSE /\ Put(w, [Cur(w) EXCEPT !.pc = IF thread[w].args.fake THEN "mw_fake"
                                                ELSE "mw_lookup"])
                /\ status_message' = WAITING
    /\ UNCHANGED <<ui, variant, env, measuring, current_weight, idle_queue>>

\* while not fake: board = get_board_device(); if board: break
\* status_message = "Balance board found, please step on." ; read_data(...)
MwLookupFound(w) ==
    /\ thread[w].pc = "mw_lookup"
    /\ status_message' = FoundStatus(variant)
    /\ Put(w, [Cur(w) EXCEPT !.pc = "loop_test", !.board = "open"])
    /\ UNCHANGED <<ui, variant, env, measuring, current_weight, idle_queue>>

\* ... or no board yet: time.sleep(0.5) and look again.
MwLookupNone(w) ==
    /\ thread[w].pc = "mw_lookup"
    /\ UNCHANGED vars

\* The samples of a faked measurement: 85.2 kg each.
FakeData == [i \in 1..Samples |-> 17040]

\* if fake: weight_data = [85.2] * 200
MwFake(w) ==
    /\ thread[w].pc = "mw_fake"
    /\ status_message' = FoundStatus(variant)
    /\ Put(w, [Cur(w) EXCEPT !.pc = "median", !.weight_data = FakeData])
    /\ UNCHANGED <<ui, variant, env, measuring, current_weight, idle_queue>>

\* f"Done, weight: {final_weight:.1f}."
MwDoneStatus(final_weight) == <<"Done, weight: .", Round1(final_weight)>>

\* if terse: debug(...) else: status_message = f"Done, weight: ..."
MwReport(w) ==
    /\ thread[w].pc = "returned"
    /\ status_message' = IF thread[w].args.terse THEN status_message
                         ELSE MwDoneStatus(thread[w].final_weight)
    /\ Put(w, [Cur(w) EXCEPT !.pc = "mw_disconnect"])
    /\ UNCHANGED <<ui, variant, env, measuring, current_weight, idle_queue>>

\* if disconnect_address: status_message += ... ; subprocess.run([...])
MwDisconnect(w) ==
    /\ thread[w].pc = "mw_disconnect"
    /\ LET address == thread[w].args.disconnect_address
       IN  IF address = NoAddress
           THEN /\ Put(w, [Cur(w) EXCEPT !.pc = "mw_command", !.hooks = @ + 1])
                /\ UNCHANGED status_message
           ELSE /\ status_message' = DisconnectingStatus(status_message)
                /\ \E raised \in BOOLEAN :
                     Put(w, [Cur(w) EXCEPT !.pc = IF raised THEN "propagated"
                                                  ELSE "mw_command",
                                         !.how = IF raised THEN "Failed" ELSE @,
                                         !.hooks = @ + 1,
                                         !.disconnected = address])
    /\ UNCHANGED <<ui, variant, env, measuring, current_weight, idle_queue>>

\* if command: subprocess.run(...) ; return final_weight
MwCommand(w) ==
    /\ thread[w].pc = "mw_command"
    /\ \E raised \in BOOLEAN :
         Put(w, IF thread[w].args.command # "None" /\ raised
                THEN [Cur(w) EXCEPT !.pc = "propagated", !.how = "Failed",
                                    !.hooks = @ + 1]
                ELSE [Cur(w) EXCEPT !.pc = "mw_returned", !.how = "Completed",
                                    !.hooks = @ + 1])
    /\ UNCHANGED <<ui, variant, env, measuring, current_weight, status_message, idle_queue>>

\* The steps cli.py and gui.py share.
Common(w) ==
    \/ Begin(w) \/ WaitTest(w) \/ LookupFound(w) \/ LookupNone(w) \/ CancelTest(w)
    \/ LoopTest(w) \/ ReadOne(w) \/ ReadNone(w) \/ ReadRaises(w) \/ Close(w)
    \/ ResultTest(w)
    \/ Publish(w) \/ WriteDone(w) \/ Except(w) \/ Finally(w)

Next ==
    \/ OnMeasureClicked
    \/ FinishMeasurement
    \/ \E w \in Workers : Common(w) \/ Disconnect(w) \/ Command(w)

NextGui ==
    \/ OnMeasureClicked
    \/ FinishMeasurement
    \/ \E w \in Workers : Common(w) \/ ReadyWrite(w)

\* cli.py with two worker threads.
Spec == Init /\ [][Next]_vars

\* cli.py with one worker thread and the events in any order.
SpecSession == InitSession /\ [][Next]_vars

\* cli.py with one worker thread and the full alphabet of events.
SpecDecoder == InitDecoder /\ [][Next]_vars

\* gui.py with two worker threads.
SpecGui == InitGui /\ [][NextGui]_vars

\* The end of measure_thread once the outcome is known: the statements after
\* the assignment of current_weight, the handler, the finally block.
Finishing(w) ==
    WriteDone(w) \/ Disconnect(w) \/ Command(w) \/ Except(w) \/ Finally(w)

\* cli.py with one worker thread and whole frames, the thread going on to
\* its end once the outcome is known and the main loop going on running the
\* idle callbacks queued.
SpecFinish ==
    /\ InitObserver
    /\ [][Next]_vars
    /\ WF_vars(FinishMeasurement)
    /\ \A w \in Workers : WF_vars(Finishing(w))

\* cli.py with one worker thread and the status timer.
NextObserver == Next \/ UpdateStatus

SpecObserver == InitObserver /\ [][NextObserver]_vars

\* cli.py's measure_weight, called on its own.
NextMeasureWeight ==
    \E w \in Workers :
        \/ MwValidate(w) \/ MwLookupFound(w) \/ MwLookupNone(w) \/ MwFake(w)
        \/ LoopTest(w) \/ ReadOne(w) \/ ReadNone(w) \/ ReadRaises(w) \/ Close(w)
        \/ MeasureWeightMedian(w) \/ MwReport(w) \/ MwDisconnect(w) \/ MwCommand(w)

SpecMeasureWeight == InitMeasureWeight /\ [][NextMeasureWeight]_vars

\* The reduction of a window in measure_weight and in measure_thread.
NextReduce == \E w \in Workers : MeasureWeightMedian(w) \/ ResultTest(w) \/ Publish(w)

SpecReduce == InitReduce /\ [][NextReduce]_vars

----------------------------------------------------------------------------
(* Properties *)

AllSet(grp) == \A i \in 1..4 : grp[i] # None

NoneSet(grp) == \A i \in 1..4 : grp[i] = None

RawSum(grp) == grp[1] + grp[2] + grp[3] + grp[4]

\* A sample of fixed-point weight s is the sum of the raw values of grp, each
\* divided by 100:  s / 200 kg = (sum of raw) / 100 kg.
IsSumOf(s, grp) == 100 * s = 200 * RawSum(grp)

IsReportComplete(e) == e.code = "SYN_REPORT" /\ e.value = 0

\* Every status text the two programs write anywhere.
WrittenTexts ==
    { "Waiting for balance board...", "Ready", "Error",
      "Balance board found, please step on.", "Please step on board",
      "User stepped off.", "User stepped off",
      "Measurement started, please wait...", "Measuring...",
      "Measuring... n/samples samples", "Done, weight: kg", "Done" }

\* The status names the abort: it is none of the texts of the other paths,
\* with or without the disconnect note appended.
AbortSurfaced ==
    \A text \in WrittenTexts :
        /\ status_message[1] # text
        /\ status_message[1] # text \o "\nDisconnecting..."

\* C1: at most one measurement worker is alive at any time: a start request
\* made while an earlier worker has not terminated starts no second worker.
C1_AtMostOneWorker == Cardinality({w \in Workers : Alive(thread[w])}) <= 1

\* C2: a session that a cancel request found in Collecting never publishes a
\* final weight: it never gets to write current_weight and does not end as
\* Completed, whatever the user and the workers do next.
C2_CancelledCollectingNeverPublishes ==
    \A w \in Workers :
        thread[w].cancelAt = "Collecting" =>
            /\ ~thread[w].published
            /\ thread[w].pc # "publish"
            /\ thread[w].how # "Completed"

\* C3: when a session reaches its terminal phase, a device handle it opened
\* has been closed exactly once.
C3_HandleClosedOnEveryExit ==
    \A w \in Workers :
        thread[w].pc = "finally" /\ thread[w].board # "None" =>
            thread[w].board = "closed" /\ thread[w].closes = 1

\* C4: a session that a cancel request found in AwaitingDevice ends as
\* Cancelled, with no sample collected and without having opened a handle.
C4_CancelAwaitingDeviceOpensNothing ==
    \A w \in Workers :
        thread[w].cancelAt = "AwaitingDevice" =>
            /\ thread[w].board = "None"
            /\ thread[w].weight_data = <<>>
            /\ thread[w].pc = "finally" => thread[w].how = "Cancelled"

\* C5: a button event yields Abort whatever the decoder's slots hold: the
\* group is dropped, the session is in its Aborted terminal phase, and an
\* aborted session has not published and will not publish a final weight.
C5_ButtonAborts ==
    \A w \in Workers :
        /\ thread[w].last.ev.code = "BTN_A" =>
              /\ thread[w].last.res = "Abort"
              /\ thread[w].slots = FreshData
              /\ thread[w].how = "Aborted"
        /\ thread[w].how = "Aborted" =>
              /\ thread[w].pc = "finally"
              /\ ~thread[w].published

\* C5 witness: the button arrived with some but not all slots set and with a
\* sample in the window.
C5_Witness ==
    \E w \in Workers :
        /\ thread[w].how = "Aborted"
        /\ thread[w].last.ev.code = "BTN_A"
        /\ ~AllSet(thread[w].last.grp) /\ ~NoneSet(thread[w].last.grp)
        /\ thread[w].last.had > 0

\* C6: after a button event in Collecting the session is Aborted, the status
\* names the abort and the device handle is closed.
C6_AbortSurfacedAndClosed ==
    \A w \in Workers :
        thread[w].last.ev.code = "BTN_A" /\ thread[w].last.had > 0 =>
            /\ thread[w].how = "Aborted"
            /\ thread[w].pc = "finally"
            /\ AbortSurfaced
            /\ thread[w].board = "closed"

\* C7: after a read of the device raised, the session is Failed, the status
\* reports the error, no final weight is published, and the handle is closed.
C7_ReadFailureClosesHandle ==
    \A w \in Workers :
        thread[w].last.ev = IOError /\ thread[w].pc = "finally" =>
            /\ thread[w].how = "Failed"
            /\ status_message = ERROR
            /\ ~thread[w].published
            /\ thread[w].board # "None" => thread[w].board = "closed"

\* C8: four axis events, one per axis in any order, then a report-complete
\* marker give one Completed sample, the sum of the four values each divided
\* by 100, and leave all four slots unset.
C8_CompleteGroupSums ==
    \A w \in Workers :
        IsReportComplete(thread[w].last.ev) /\ AllSet(thread[w].last.grp) =>
            /\ thread[w].last.res = "Completed"
            /\ IsSumOf(thread[w].last.sample, thread[w].last.grp)
            /\ thread[w].slots = FreshData

\* C8 witness: a completed group of two light and two heavy values.
C8_Witness ==
    \E w \in Workers :
        /\ thread[w].last.res = "Completed"
        /\ thread[w].last.grp = <<300, 500, 500, 300>>

\* C9: a report-complete marker that finds a slot unset gives Discarded and
\* clears all four slots; a Completed sample is the sum of values that all
\* arrived after the previous Completed or Discarded result.
C9_IncompleteGroupDiscarded ==
    \A w \in Workers :
        /\ IsReportComplete(thread[w].last.ev) /\ ~AllSet(thread[w].last.grp) =>
              /\ thread[w].last.res = "Discarded"
              /\ thread[w].slots = FreshData
        /\ thread[w].last.res = "Completed" =>
              /\ AllSet(thread[w].last.grp)
              /\ IsSumOf(thread[w].last.sample, thread[w].last.grp)

\* C9 witness: a marker arrived with three of the four slots set.
C9_Witness ==
    \E w \in Workers :
        /\ thread[w].last.res = "Discarded"
        /\ Cardinality({i \in 1..4 : thread[w].last.grp[i] # None}) = 3

\* C10: with the window empty, a completed sample below the minimum weight
\* leaves the window empty and the session in AwaitingThreshold; a completed
\* sample at or above it becomes the window's first entry.
C10_ThresholdGate ==
    \A w \in Workers :
        thread[w].last.res = "Completed" /\ thread[w].last.had = 0 =>
            IF thread[w].last.sample < Kg(DEFAULT_MIN_WEIGHT_LIMIT)
            THEN thread[w].weight_data = <<>> /\ Phase(thread[w]) = "AwaitingThreshold"
            ELSE thread[w].weight_data = <<thread[w].last.sample>>

\* C10 witness: a sample of 18 kg arrived while the window was empty.
C10_Witness ==
    \E w \in Workers :
        /\ thread[w].last.res = "Completed"
        /\ thread[w].last.had = 0
        /\ thread[w].last.sample = Kg(18)

\* C11: once the window is non-empty, the first completed sample below the
\* minimum weight ends collection without being appended, and the session,
\* unless a cancel request found it, does not end as Cancelled: it goes on to
\* Completed, its final weight computed from exactly the window as it was
\* before that sample arrived.
C11_StepOffCompletes ==
    \A w \in Workers :
        /\ thread[w].last.res = "Completed" /\ thread[w].last.had > 0
              /\ thread[w].last.sample < Threshold =>
                /\ Len(thread[w].weight_data) = thread[w].last.had
                /\ thread[w].ended = "stepoff"
                /\ thread[w].pc = "close"
        /\ thread[w].ended = "stepoff" /\ thread[w].cancelAt = "" =>
                /\ thread[w].how # "Cancelled"
                /\ thread[w].published =>
                      thread[w].final_weight =
                          FinalWeight(thread[w].weight_data, thread[w].adjust)

\* C12: in every reachable state the window of every session holds at most
\* `samples` entries.
C12_WindowBounded ==
    \A w \in Workers : Len(thread[w].weight_data) <= Samples

\* C12 witness: an append has just filled the window to `samples` entries.
C12_Witness ==
    \E w \in Workers :
        /\ thread[w].last.res = "Completed"
        /\ thread[w].last.had = Samples - 1
        /\ Len(thread[w].weight_data) = Samples

\* C13: the append that brings the window to `samples` entries ends
\* collection at once, no further event is read, and the session, unless a
\* cancel request found it, does not end as Cancelled: an uninterrupted run
\* of `samples` samples at or above the minimum weight ends in Completed with
\* a window of exactly `samples` entries.
C13_FullWindowCompletes ==
    \A w \in Workers :
        /\ thread[w].last.res = "Completed" /\ thread[w].last.had = Samples - 1
              /\ thread[w].last.sample >= Threshold =>
                /\ thread[w].ended = "full"
                /\ thread[w].pc = "close"
        /\ thread[w].ended = "full" /\ thread[w].cancelAt = "" =>
                /\ Len(thread[w].weight_data) = Samples
                /\ thread[w].pc \notin {"loop_test", "read"}
                /\ thread[w].how # "Cancelled"

\* The arrangements of the entries of s in ascending order.
Ascending(s) ==
    {t \in [1..Len(s) -> {s[i] : i \in 1..Len(s)}] :
        /\ \A i \in 1..(Len(s) - 1) : t[i] <= t[i + 1]
        /\ \A x \in {s[i] : i \in 1..Len(s)} :
             Cardinality({i \in 1..Len(s) : t[i] = x})
                 = Cardinality({i \in 1..Len(s) : s[i] = x})}

\* m is the middle entry of the sorted s when their number is odd, the mean
\* of the two middle entries when it is even.
IsMedianOf(m, s) ==
    \E t \in Ascending(s) :
        IF Len(s) % 2 = 1 THEN m = t[(Len(s) + 1) \div 2]
        ELSE 2 * m = t[Len(s) \div 2] + t[Len(s) \div 2 + 1]

\* C14: the reduction of an empty window fails with the median's error and
\* gives no weight, and no weight is published from an empty window; the
\* reduction of a non-empty window gives its median plus the adjustment, the
\* median being the middle entry of the sorted window (odd count) or the mean
\* of the two middle entries (even count).
C14_Reduce ==
    \A w \in Workers :
        /\ thread[w].pc = "raised" =>
              /\ thread[w].weight_data = <<>>
              /\ thread[w].how = "StatisticsError"
              /\ thread[w].final_weight = 0
        /\ thread[w].pc = "returned" =>
              /\ thread[w].weight_data # <<>>
              /\ IsMedianOf(thread[w].final_weight - thread[w].adjust,
                            thread[w].weight_data)
        /\ thread[w].published =>
              /\ thread[w].weight_data # <<>>
              /\ IsMedianOf(thread[w].final_weight - thread[w].adjust,
                            thread[w].weight_data)
              /\ current_weight = thread[w].final_weight

\* C14 witness: the reduction of three samples that arrived out of order.
C14_Witness ==
    \E w \in Workers :
        /\ thread[w].pc = "returned"
        /\ thread[w].weight_data = <<Kg(25), Kg(20), Kg(22)>>
        /\ thread[w].final_weight = Kg(22) + thread[w].adjust

\* C15: once a cancel request has found a session in AwaitingThreshold or in
\* Collecting, the session reads at most one more raw event, of whatever
\* kind, before it stops reading.
C15_CancelCheckedAfterEveryEvent ==
    \A w \in Workers :
        thread[w].cancelAt \in {"AwaitingThreshold", "Collecting"} =>
            thread[w].after <= 1

\* C16: the flag a running session observes is cleared only by a cancel
\* request: every step that clears it while a worker is alive is the cancel
\* branch of the click handler, which finds every live session.
C16_TokenSetOnlyByCancel ==
    [][measuring /\ ~measuring' =>
          \A w \in Workers : Alive(thread[w]) => thread'[w].cancelAt # ""]_vars

\* The status texts a worker writes between finding the board and
\* publishing its result.
PreCompletionTexts ==
    { "Balance board found, please step on.", "Please step on board",
      "Measurement started, please wait...", "Measuring...",
      "Measuring... n/samples samples", "User stepped off.", "User stepped off" }

\* C17: what a finished poll of the observer shows is never torn: it does
\* not show a published final weight together with a status written before
\* the completion, nor a completion status together with a weight other
\* than the one that status reports.
C17_SnapshotNotTorn ==
    ui.pc = "idle" =>
        /\ ui.weight_label # 0 => ui.status_label[1] \notin PreCompletionTexts
        /\ ui.status_label[1] = "Done, weight: kg" =>
              ui.weight_label = ui.status_label[2]

\* A step of the live worker w.
WorkerStepped(w) == Alive(thread[w]) /\ thread'[w].pc # thread[w].pc

\* Worker w belongs to an earlier session than some other live worker: a
\* cancel request found it and did not find the other.
IsEarlierWorker(w) ==
    /\ thread[w].cancelAt # ""
    /\ \E x \in Workers \ {w} : Alive(thread[x]) /\ thread[x].cancelAt = ""

\* C18: while a session is active, every step that changes the status
\* message or the published weight is a step of a worker, and not of the
\* worker of an earlier session: neither the click handler nor an earlier
\* worker writes them.
C18_SingleWriter ==
    [][/\ \E w \in Workers : Alive(thread[w])
       /\ status_message' # status_message \/ current_weight' # current_weight
       => \E w \in Workers : WorkerStepped(w) /\ ~IsEarlierWorker(w)]_vars

\* The terminal phase a session has reached, "" when none: Completed once it
\* has published, Cancelled once one of its loops has found the flag
\* cleared, Aborted or Failed as recorded.
TerminalReached(t) ==
    IF t.published THEN "Completed"
    ELSE IF t.how \in {"Cancelled", "Aborted", "Failed"} THEN t.how
    ELSE IF t.ended = "stopped" \/ (t.pc = "cancel_test" /\ t.board = "None")
    THEN "Cancelled"
    ELSE ""

\* C19: the terminal phases are absorbing: a session that has reached one
\* stays in it for as long as its worker lives, appends nothing to its
\* window and goes back to no lookup and to no read of the device.
C19_TerminalAbsorbing ==
    [][\A w \in Workers :
          TerminalReached(thread[w]) # "" /\ Alive(thread'[w]) =>
              /\ TerminalReached(thread'[w]) = TerminalReached(thread[w])
              /\ thread'[w].weight_data = thread[w].weight_data
              /\ thread'[w].pc \notin {"lookup", "loop_test", "read"}]_vars

\* C20: a session that a cancel request found in AwaitingDevice, and that
\* has found no device, is out of its wait loop at the loop's next test, at
\* most one poll interval later, and from there it ends as Cancelled: once
\* it has observed the cancellation it looks up no device again.
C20_CancelAwaitingDeviceWithinOnePoll ==
    [][\A w \in Workers :
          /\ thread[w].cancelAt = "AwaitingDevice"
          /\ thread[w].board = "None"
          /\ WorkerStepped(w)
          => /\ thread[w].pc = "wait_test" => thread'[w].pc = "cancel_test"
             /\ thread[w].pc = "cancel_test" =>
                   /\ thread'[w].pc \in {"ready_write", "finally"}
                   /\ thread'[w].pc = "finally" => thread'[w].how = "Cancelled"]_vars

\* C21: a text of the disconnect entry that is no device address is rejected
\* before the session starts: the disconnect hook is never run with it,
\* while the session itself runs and publishes.
C21_InvalidAddressNeverDisconnected ==
    \A w \in Workers :
        thread[w].disconnected # NoAddress => MacPattern(thread[w].disconnected)

\* C22: a session that has published a final weight goes through each of
\* its two hooks, the disconnect and the external command, exactly once
\* before it ends; a session that ends without a published weight goes
\* through neither.
C22_HooksOnceForCompleted ==
    \A w \in Workers :
        thread[w].pc = "finally" =>
            IF thread[w].published THEN thread[w].hooks = 2
            ELSE thread[w].hooks = 0

\* C23: when a hook of a session that has published fails, the published
\* weight and the status that reports the completed measurement stay as
\* they were published.
C23_HookFailureKeepsResult ==
    \A w \in Workers :
        thread[w].pc = "finally" /\ thread[w].published /\ thread[w].how = "Failed" =>
            /\ current_weight = thread[w].final_weight
            /\ status_message \in
                  { DoneStatus(variant, thread[w].final_weight),
                    DisconnectingStatus(DoneStatus(variant, thread[w].final_weight)) }

\* C24: every step that appends a sample to a window refreshes the status,
\* which then reports the window's size: the start of the measurement for
\* the first sample, the count of samples from then on.
C24_StatusRefreshedPerSample ==
    [][\A w \in Workers :
          Len(thread'[w].weight_data) > Len(thread[w].weight_data) =>
              \/ /\ Len(thread'[w].weight_data) = 1
                 /\ status_message' = StartedStatus(variant)
              \/ status_message' = CountStatus(variant, Len(thread'[w].weight_data))]_vars

\* A read of the silent board after which the worker is out of the decoder.
LeavesDecoderOnSilence(w) == ReadNone(w) /\ thread'[w].pc # "read"

\* C25: a session that waits in the decoder for a board that sends nothing
\* leaves it once its cancellation has been requested: with the flag
\* cleared, a read that returns no event takes the worker out of the decoder.
C25_SilentBoardCancellable ==
    \A w \in Workers :
        /\ thread[w].pc = "read"
        /\ thread[w].board = "open"
        /\ thread[w].cancelAt \in {"AwaitingThreshold", "Collecting"}
        /\ ~measuring
        => ENABLED LeavesDecoderOnSilence(w)

\* Worker w, the only live one, has published and reported its result.
HasReported(w) ==
    /\ thread[w].pc = "finally"
    /\ thread[w].published
    /\ status_message = DoneStatus(variant, thread[w].final_weight)
    /\ \A x \in Workers \ {w} : ~Alive(thread[x])

\* A step that starts a session.
SessionStarted == \E x \in Workers : ~Alive(thread[x]) /\ Alive(thread'[x])

\* C26: once a session has reported its terminal status, no step but the
\* start of a new session changes the status message or the published
\* weight: not a click, not a finish callback.
C26_TerminalStatusKept ==
    [][(\E w \in Workers : HasReported(w)) /\ ~SessionStarted
       => status_message' = status_message /\ current_weight' = current_weight]_vars

\* C27: no session gets to its finalization with an empty window: where the
\* median of the window is taken, in measure_weight and in measure_thread,
\* the window holds at least one sample, and the median never fails.
C27_NeverFinalizesEmpty ==
    \A w \in Workers :
        /\ thread[w].pc \in {"median", "publish"} => thread[w].weight_data # <<>>
        /\ thread[w].how # "StatisticsError"

\* C28: a session that has ended as Cancelled, Aborted or Failed leaves the
\* published weight as it was: no step of its worker changes current_weight.
C28_UnsuccessfulKeepsWeight ==
    [][\A w \in Workers :
          /\ TerminalReached(thread[w]) \in {"Cancelled", "Aborted", "Failed"}
          /\ WorkerStepped(w)
          => current_weight' = current_weight]_vars

\* C29: an axis event for a slot that is already set overwrites it: while
\* the decoder reads, every slot holds the last value sent for its axis since
\* the previous Completed or Discarded result (and is unset when none was
\* sent), and a Completed sample of a group with a repeated axis is the sum
\* of those last values, each divided by 100.
C29_LastValuePerAxis ==
    \A w \in Workers :
        /\ thread[w].pc = "read" =>
              \A i \in 1..4 :
                  thread[w].slots[i] = IF thread[w].grp[i] = None THEN None
                                       ELSE Convert(thread[w].grp[i])
        /\ thread[w].last.res = "Completed" /\ thread[w].last.over =>
              IsSumOf(thread[w].last.sample, thread[w].last.grp)

\* C29 witness: a group completed with four heavy values, the light value
\* one of its axes had sent before having been overwritten.
C29_Witness ==
    \E w \in Workers :
        /\ thread[w].last.res = "Completed"
        /\ thread[w].last.over
        /\ thread[w].last.grp = <<500, 500, 500, 500>>
        /\ thread[w].last.sample = Kg(20)

\* C30: the step that reads SYN_DROPPED, SYN_REPORT 3 or an unexpected
\* event leaves the slots, the window and the phase as they were, and ends
\* nothing: the decoder goes on reading and the session reaches no terminal
\* phase by it.
C30_IgnoredEventsChangeNothing ==
    [][\A w \in Workers :
          thread'[w].last.ev \in Noise =>
              /\ thread'[w].slots = thread[w].slots
              /\ thread'[w].weight_data = thread[w].weight_data
              /\ Phase(thread'[w]) = Phase(thread[w])
              /\ thread'[w].pc = "read" /\ thread[w].pc = "read"
              /\ thread'[w].how = "" /\ thread'[w].ended = ""]_vars

\* C30 witness: SYN_REPORT 3 was read and ignored with three slots set and
\* a sample in the window.
C30_Witness ==
    \E w \in Workers :
        /\ thread[w].last.ev = [code |-> "SYN_REPORT", value |-> 3]
        /\ thread[w].last.res = "Pending"
        /\ Cardinality({i \in 1..4 : thread[w].slots[i] # None}) = 3
        /\ Len(thread[w].weight_data) = 1
        /\ thread[w].pc = "read"

\* C31: an incomplete group is recoverable within the session.  The step
\* that reads the report marker with a slot unset leaves the window and the
\* phase as they were and the decoder reading; and in a session that has had
\* an incomplete group, a later marker that completes a group gives the sum of
\* that group alone, which passes the threshold gate as any sample does: below
\* the minimum weight it leaves the window as it is, otherwise it is appended.
C31_DiscardedRecoverable ==
    [][\A w \in Workers :
          /\ thread[w].pc = "read" /\ IsReportComplete(thread'[w].last.ev)
                /\ ~AllSet(thread'[w].last.grp) =>
                /\ thread'[w].last.res = "Discarded"
                /\ thread'[w].weight_data = thread[w].weight_data
                /\ Phase(thread'[w]) = Phase(thread[w])
                /\ thread'[w].pc = "read"
                /\ thread'[w].how = "" /\ thread'[w].ended = thread[w].ended
          /\ thread[w].pc = "read" /\ thread[w].discarded
                /\ thread'[w].last.res = "Completed" =>
                /\ AllSet(thread'[w].last.grp)
                /\ IsSumOf(thread'[w].last.sample, thread'[w].last.grp)
                /\ thread'[w].weight_data =
                      IF thread'[w].last.sample < Kg(DEFAULT_MIN_WEIGHT_LIMIT)
                      THEN thread[w].weight_data
                      ELSE Append(thread[w].weight_data, thread'[w].last.sample)]_vars

\* C31 witness: after an incomplete group, with one sample in the window, a
\* complete group of 20 kg was decoded and appended.
C31_Witness ==
    \E w \in Workers :
        /\ thread[w].discarded
        /\ thread[w].last.res = "Completed"
        /\ thread[w].last.had = 1
        /\ thread[w].weight_data = <<Kg(20), Kg(20)>>

\* C32: in every reachable state every entry of a session's window is at
\* least the minimum weight, and a final weight the session has published is
\* at least the minimum weight plus the adjustment.
C32_WindowAboveMinimum ==
    \A w \in Workers :
        /\ \A i \in 1..Len(thread[w].weight_data) :
              thread[w].weight_data[i] >= Kg(DEFAULT_MIN_WEIGHT_LIMIT)
        /\ thread[w].published =>
              /\ thread[w].final_weight >= Kg(DEFAULT_MIN_WEIGHT_LIMIT) + thread[w].adjust
              /\ current_weight >= Kg(DEFAULT_MIN_WEIGHT_LIMIT) + thread[w].adjust

\* C32 witness: a session with a full window has published 18 kg, the
\* minimum weight of 20 kg adjusted by -2 kg.
C32_Witness ==
    \E w \in Workers :
        /\ thread[w].published
        /\ Len(thread[w].weight_data) = Samples
        /\ current_weight = Kg(18)

\* C33: whatever way a worker ends, it schedules the finish callback: the
\* step by which a thread ends queues one callback; and once the outcome of a
\* session is known (published, cancelled, aborted or failed), the flag
\* `measuring` is eventually False, the state in which on_measure_clicked
\* takes a click for a start request.
C33_WorkerEndSchedulesFinish ==
    /\ [][\A w \in Workers :
            Alive(thread[w]) /\ ~Alive(thread'[w]) => idle_queue' = idle_queue + 1]_vars
    /\ \A w \in Workers : (thread[w].how # "") ~> ~measuring

\* C33 witness: a worker has ended by an exception and has left its callback
\* in the queue, the flag still set.
C33_Witness ==
    /\ \A w \in Workers : ~Alive(thread[w])
    /\ idle_queue > 0
    /\ measuring
    /\ status_message = ERROR

\* C34: on the path that publishes a final weight the device handle is closed
\* first: the step that assigns current_weight, the step that takes the
\* median in measure_weight and every step through a hook statement start
\* from a state in which the thread's handle has been closed, once (a faked
\* measurement of measure_weight opens no handle).
C34_ClosedBeforePublish ==
    [][\A w \in Workers :
          \/ thread'[w].published /\ ~thread[w].published
          \/ thread'[w].hooks > thread[w].hooks
          \/ thread[w].pc = "median" /\ thread'[w].pc = "returned"
          => /\ thread[w].board # "open"
             /\ thread[w].args.fake \/ (thread[w].board = "closed" /\ thread[w].closes = 1)]_vars

\* C34 witness: a session has published its weight and gone through both
\* hook statements, its handle closed.
C34_Witness ==
    \E w \in Workers :
        /\ thread[w].published
        /\ thread[w].hooks = 2
        /\ thread[w].board = "closed"
        /\ thread[w].pc = "finally"
        /\ current_weight = thread[w].final_weight

====
